---- MODULE Spec2Model ----
(***************************************************************************)
(* mezmorize: the memoization key and versioning engine.                   *)
(*                                                                         *)
(* Text is a sequence of one-character strings, so that get_namespace's    *)
(* character filter is modelled by what it does.  A Python value is        *)
(* modelled by its repr text (the only thing the key builder reads of it). *)
(* Two idealisations:                                                      *)
(*   - md5 (base64, 16 characters) is injective: the hash of a text is     *)
(*     modelled by the text;                                               *)
(*   - uuid4() never repeats: the n-th draw is the token numbered n.       *)
(* Time is the backend's clock, in whole ticks.                            *)
(***************************************************************************)
EXTENDS Integers, Sequences, FiniteSets, TLC

\* ------------------------------------------------------------------ bounds
MaxTime == 2
MaxUuid == 4
MaxItems == 2

\* -------------------------------------------------------------------- text
Alnum ==
    {"a","b","c","d","e","f","g","h","i","j","k","l","m","n","o","p","q","r",
     "s","t","u","v","w","x","y","z","A","B","C","D","E","F","G","H","I","J",
     "K","L","M","N","O","P","Q","R","S","T","U","V","W","X","Y","Z",
     "0","1","2","3","4","5","6","7","8","9"}

\* is_invalid = lambda c: not (c in {'_', '.'} or c.isalnum())
is_invalid(c) == ~(c \in {"_", "."} \/ c \in Alnum)

is_valid(c) == ~is_invalid(c)

RECURSIVE join(_, _)
join(sep, names) ==
    IF names = <<>> THEN <<>>
    ELSE IF Len(names) = 1 THEN names[1]
    ELSE names[1] \o sep \o join(sep, Tail(names))

\* text.translate(FIRST_NC): every character of delchars is dropped
get_namespace(names) == SelectSeq(join(<<".">>, names), is_valid)

startswith(text, prefix) ==
    /\ Len(text) >= Len(prefix)
    /\ SubSeq(text, 1, Len(prefix)) = prefix

\* ------------------------------------------------------------------ values
\* Python's None, and the other argument values of the modelled calls.
None == <<"N","o","n","e">>
V1 == <<"1">>
V5 == <<"5">>

\* The values the modelled calls pass for each declared parameter.
ArgVals(m_arg) ==
    CASE m_arg = "a" -> {None, V1}
      [] m_arg = "b" -> {None, V5}
      [] m_arg = "n" -> {V5}
      [] m_arg = "x" -> {<<"1">>, <<"1", ",", " ", "2">>}
      [] m_arg = "y" -> {<<"3">>, <<"2", ",", " ", "3">>}

\* repr() of a str value: the text in quotes.
repr_str(text) == <<"'">> \o text \o <<"'">>

\* repr() of a tuple of values: "(x, y)", and "(x,)" for one element.
repr_tuple(vals) ==
    IF Len(vals) = 1 THEN <<"(">> \o vals[1] \o <<",", ")">>
    ELSE <<"(">> \o join(<<",", " ">>, vals) \o <<")">>

\* --------------------------------------------------------------- functions
\* The receivers of the memoized method, each with the text its __repr__
\* returns.  adder1 and adder2 differ only in a character get_namespace
\* drops.
Instances == {"adder1", "adder2", "adder3"}

Repr(o) ==
    CASE o = "adder1" -> <<"A", "1">>
      [] o = "adder2" -> <<"A", " ", "1">>
      [] o = "adder3" -> <<"A", "2">>
      [] o = "adder4" -> <<"A", "1">>

\* Two receivers of the same class whose __repr__ returns the same text.
Twins == {"adder1", "adder4"}

\* Two receivers with separate instance namespaces.
Separates == {"adder1", "adder3"}

Module == <<"t">>

\* A callable as the engine sees it: its qualified name, its declared
\* parameters and defaults (getfullargspec) and its __self__ (<<>> when it
\* has none, else <<repr of the receiver>>).  The wrapped functions are
\* def func(a, b=5) and def add(self, n) of class Adder.
Func ==
    [name |-> "func", qualname |-> <<"f","u","n","c">>,
     m_args |-> <<"a", "b">>, defaults |-> <<V5>>,
     self |-> <<>>, isclass |-> FALSE]

Add ==
    [name |-> "add", qualname |-> <<"A","d","d","e","r",".","a","d","d">>,
     m_args |-> <<"self", "n">>, defaults |-> <<>>,
     self |-> <<>>, isclass |-> FALSE]

\* The classmethod def func(cls, a, b) of class Mock, under @classmethod
\* over the memoizing decorator.
MockFunc ==
    [name |-> "Mock.func",
     qualname |-> <<"M","o","c","k",".","f","u","n","c">>,
     m_args |-> <<"cls", "a", "b">>, defaults |-> <<>>,
     self |-> <<>>, isclass |-> FALSE]

\* def pair(x, y), a function of two objects.
Pair ==
    [name |-> "pair", qualname |-> <<"p","a","i","r">>,
     m_args |-> <<"x", "y">>, defaults |-> <<>>,
     self |-> <<>>, isclass |-> FALSE]

\* def named(a, b=5), memoized with make_name=lambda fname: fname + "_v2".
Named ==
    [name |-> "named", qualname |-> <<"n","a","m","e","d">>,
     m_args |-> <<"a", "b">>, defaults |-> <<V5>>,
     self |-> <<>>, isclass |-> FALSE, make_name |-> <<"_","v","2">>]

\* def nothing(): return None, a function whose result is None.
Nothing ==
    [name |-> "nothing", qualname |-> <<"n","o","t","h","i","n","g">>,
     m_args |-> <<>>, defaults |-> <<>>,
     self |-> <<>>, isclass |-> FALSE, returns_none |-> TRUE]

\* repr(Mock).
ReprMock == <<"<","c","l","a","s","s"," ","'","t",".","M","o","c","k","'",">">>

Uncached(fname) ==
    CASE fname = "func" -> Func
      [] fname = "add" -> Add
      [] fname = "Mock.func" -> MockFunc
      [] fname = "pair" -> Pair
      [] fname = "named" -> Named
      [] fname = "nothing" -> Nothing

FuncNames == {"func", "add", "Mock.func", "pair", "named", "nothing"}

\* Klass.method, or the decorated plain function: the wrapper declares
\* (*args, **kwargs), which getfullargspec reports as no args; no __self__.
Decorated(w) == [w EXCEPT !.m_args = <<>>, !.defaults = <<>>]

\* inst.method: the decorated wrapper bound to inst.
Bound(w, o) == [Decorated(w) EXCEPT !.self = <<Repr(o)>>]

\* Mock.func: the classmethod's wrapper bound to the class itself.
ClassBound(w) == [Decorated(w) EXCEPT !.self = <<ReprMock>>, !.isclass = TRUE]

\* ------------------------------------------------------- function identity
\* function_namespace(f, *args) on Python 3 (name = f.__qualname__):
\* (ns, ins), with ins = <<>> for Python's None.
function_namespace(f, args) ==
    LET m_args == f.m_args
        m_arg == IF args # <<>> /\ m_args # <<>> THEN m_args[1] ELSE ""
        not_class == f.self # <<>> /\ ~f.isclass
        is_self == m_arg = "self"
        ns == get_namespace(<<Module, f.qualname>>)
        instance == IF not_class THEN f.self[1] ELSE args[1]
    IN  [ns |-> ns,
         ins |-> IF not_class \/ is_self
                 THEN get_namespace(<<Module, f.qualname, instance>>)
                 ELSE <<>>]

\* --------------------------------------------------- argument canonicalizer
kwargs_get(kwargs, m_arg) ==
    IF m_arg \in DOMAIN kwargs THEN kwargs[m_arg] ELSE None

\* defaults = dict(zip(reversed(m_args), reversed(_defaults)))
has_default(f, i) == i > Len(f.m_args) - Len(f.defaults)

defaults_get(f, i) ==
    IF has_default(f, i)
    THEN f.defaults[i - (Len(f.m_args) - Len(f.defaults))]
    ELSE None

\* _gen_args without the receiver's repr: self and cls are left unset.
new_arg_unset_self(f, args, kwargs, i, counter) ==
    LET m_arg == f.m_args[i]
        arg_num == (i - 1) - counter
    IN  IF i = 1 /\ m_arg \in {"self", "cls"} THEN None
        ELSE IF kwargs_get(kwargs, m_arg) # None THEN kwargs[m_arg]
        ELSE IF arg_num < Len(args) THEN args[arg_num + 1]
        ELSE IF defaults_get(f, i) # None THEN defaults_get(f, i)
        ELSE None

\* What stands for the IndexError that args[0] raises on an empty tuple.
IndexError == <<"IndexError">>

\* One turn of _gen_args's loop for the parameter at (1-based) place i.
new_arg(f, args, kwargs, i, counter) ==
    LET m_arg == f.m_args[i]
        arg_num == (i - 1) - counter
    IN  IF i = 1 /\ m_arg \in {"self", "cls"}
        THEN IF args = <<>> THEN IndexError ELSE repr_str(args[1])
        ELSE IF kwargs_get(kwargs, m_arg) # None THEN kwargs[m_arg]
        ELSE IF arg_num < Len(args) THEN args[arg_num + 1]
        ELSE IF defaults_get(f, i) # None THEN defaults_get(f, i)
        ELSE None

counts(f, kwargs, i) ==
    /\ ~(i = 1 /\ f.m_args[i] \in {"self", "cls"})
    /\ kwargs_get(kwargs, f.m_args[i]) # None

RECURSIVE gen_args_from(_, _, _, _, _)
gen_args_from(f, args, kwargs, i, counter) ==
    IF i > Len(f.m_args) THEN <<>>
    ELSE <<new_arg(f, args, kwargs, i, counter)>>
         \o gen_args_from(f, args, kwargs, i + 1,
                          IF counts(f, kwargs, i) THEN counter + 1 ELSE counter)

\* _gen_args that goes on after the declared parameters and yields the
\* positional arguments left over.
_gen_args_with_rest(f, args, kwargs) ==
    gen_args_from(f, args, kwargs, 1, 0)
        \o SubSeq(args, Len(f.m_args) + 1, Len(args))

_gen_args(f, args, kwargs) == gen_args_from(f, args, kwargs, 1, 0)

\* The call f(*args, **kwargs) of the wrapped function itself: Python binds
\* the arguments to the declared parameters, or raises TypeError.
binds(f, args, kwargs) ==
    /\ Len(args) <= Len(f.m_args)
    /\ \A i \in 1..Len(f.m_args) :
          LET m_arg == f.m_args[i]
          IN  /\ ~(i <= Len(args) /\ m_arg \in DOMAIN kwargs)
              /\ i <= Len(args) \/ m_arg \in DOMAIN kwargs \/ has_default(f, i)
    /\ \A k \in DOMAIN kwargs : \E i \in 1..Len(f.m_args) : f.m_args[i] = k

bound(f, args, kwargs) ==
    [i \in 1..Len(f.m_args) |->
        IF i <= Len(args) THEN args[i]
        ELSE IF f.m_args[i] \in DOMAIN kwargs THEN kwargs[f.m_args[i]]
        ELSE defaults_get(f, i)]

\* ----------------------------------------------------------------- backend
\* The storing backend (werkzeug's SimpleCache, built by backends.simple):
\* a table key -> (expires, value), read against the clock.  A stored
\* value is a record; PyNone is Python's None, what get returns on a miss.
\* Each item also carries, as history, the time it was set.
PyNone == [kind |-> "None", seed |-> <<>>, n |-> 0]

\* What a wrapped function returns: a value of its bound arguments.
Ret(vals) == [kind |-> "ret", seed |-> vals, n |-> 0]

normalize_timeout(timeout, default_timeout, t) ==
    LET given == IF timeout = <<>> THEN default_timeout ELSE timeout[1]
    IN  IF given > 0 THEN t + given ELSE given

cache_get(st, key, t) ==
    IF key \in DOMAIN st /\ (st[key].expires = 0 \/ st[key].expires > t)
    THEN st[key].value
    ELSE PyNone

cache_set(st, key, value, timeout, default_timeout, t) ==
    LET item == [expires |-> normalize_timeout(timeout, default_timeout, t),
                 value |-> value, stored |-> t]
    IN  [k \in DOMAIN st \cup {key} |-> IF k = key THEN item ELSE st[k]]

cache_delete(st, key) == [k \in DOMAIN st \ {key} |-> st[k]]

cache_get_many(st, keys, t) == [i \in 1..Len(keys) |-> cache_get(st, keys[i], t)]

RECURSIVE cache_set_many(_, _, _, _, _, _)
cache_set_many(st, keys, values, timeout, default_timeout, t) ==
    IF keys = <<>> THEN st
    ELSE cache_set_many(
            cache_set(st, keys[1], values[1], timeout, default_timeout, t),
            Tail(keys), Tail(values), timeout, default_timeout, t)

RECURSIVE cache_delete_many(_, _)
cache_delete_many(st, keys) ==
    IF keys = <<>> THEN st
    ELSE cache_delete_many(cache_delete(st, keys[1]), Tail(keys))

\* ------------------------------------------- SpreadSASLMemcachedCache
\* The memcached client under it is the table above, with one limit more:
\* set raises TooBig for a value longer, serialized, than one item holds.
\* Values are [kind, seed, n] records: an object with its content in seed, a
\* bytes chunk, or the marker string.
CHUNKSIZE == 2

MAXCHUNKS == 3

MARKER == [kind |-> "str", seed |-> <<"M">>, n |-> 0]

Obj(content) == [kind |-> "obj", seed |-> content, n |-> 0]

Bytes(content) == [kind |-> "bytes", seed |-> content, n |-> 0]

\* pickle.dumps(value, 2): the content, closed by the STOP opcode ".".
pickle_dumps(value) == value.seed \o <<".">>

\* pickle.loads(serialized): the object read up to the first STOP opcode;
\* bytes after it are not read.
RECURSIVE unpickled(_)
unpickled(serialized) ==
    IF serialized = <<>> \/ Head(serialized) = "." THEN <<>>
    ELSE <<Head(serialized)>> \o unpickled(Tail(serialized))

pickle_loads(serialized) == Obj(unpickled(serialized))

\* The client's TooBig: what it sends for an object is its pickle, for
\* bytes and str the text itself.
TooBig(value) ==
    IF value.kind = "obj" THEN Len(pickle_dumps(value)) > CHUNKSIZE
    ELSE Len(value.seed) > CHUNKSIZE

Digits == <<"0", "1", "2", "3", "4", "5", "6", "7", "8", "9">>

\* '{}.{}'.format(key, i)
SpreadKey(key, i) ==
    [text |-> key.text \o <<".", Digits[i + 1]>>, ver |-> <<>>]

\* _genkeys with one key too few.
_genkeys_short(key) == [i \in 1..(MAXCHUNKS - 1) |-> SpreadKey(key, i - 1)]

_genkeys(key) == [i \in 1..MAXCHUNKS |-> SpreadKey(key, i - 1)]

\* len(range(0, len(pickled), CHUNKSIZE))
chunks(pickled) == (Len(pickled) + CHUNKSIZE - 1) \div CHUNKSIZE

Least(a, b) == IF a < b THEN a ELSE b

\* _gen_kv(key, pickled), when it does not raise: the chunk keys and the
\* slices pickled[i:i + CHUNKSIZE].
_gen_kv(key, pickled) ==
    [keys |-> [i \in 1..chunks(pickled) |-> SpreadKey(key, i - 1)],
     values |-> [i \in 1..chunks(pickled) |->
                    Bytes(SubSeq(pickled, (i - 1) * CHUNKSIZE + 1,
                                 Least(i * CHUNKSIZE, Len(pickled))))]]

\* set from the TooBig of super.set on: the marker is stored, then _gen_kv
\* raises ValueError or its chunks are stored with set_many.
spread_set_big(st, key, pickled, timeout, default_timeout, t) ==
    IF chunks(pickled) > MAXCHUNKS
    THEN [store |-> st, raised |-> TRUE]
    ELSE [store |-> cache_set_many(st, _gen_kv(key, pickled).keys,
                                   _gen_kv(key, pickled).values, timeout,
                                   default_timeout, t),
          raised |-> FALSE]

\* SpreadSASLMemcachedCache.set(key, value, timeout)
spread_set(st, key, value, timeout, default_timeout, t) ==
    IF ~TooBig(value)
    THEN [store |-> cache_set(st, key, value, timeout, default_timeout, t),
          raised |-> FALSE]
    ELSE spread_set_big(
            cache_set(st, key, MARKER, timeout, default_timeout, t), key,
            pickle_dumps(value), timeout, default_timeout, t)

\* b''.join(v for v in result if v is not None)
RECURSIVE joined(_)
joined(result) ==
    IF result = <<>> THEN <<>>
    ELSE (IF Head(result) = PyNone THEN <<>> ELSE Head(result).seed)
         \o joined(Tail(result))

\* get from value == MARKER on.
spread_get_many(serialized) ==
    IF serialized = <<>> THEN PyNone ELSE pickle_loads(serialized)

\* SpreadSASLMemcachedCache.get(key)
spread_get(st, key, t) ==
    IF cache_get(st, key, t) = MARKER
    THEN spread_get_many(joined(cache_get_many(st, _genkeys(key), t)))
    ELSE cache_get(st, key, t)

\* SpreadSASLMemcachedCache.delete(key)
spread_delete(st, key, t) ==
    IF cache_get(st, key, t) = MARKER
    THEN cache_delete_many(cache_delete(st, key), _genkeys(key))
    ELSE cache_delete(st, key)

\* -------------------------------------------------------- version registry
_memvname(funcname) == funcname \o <<"_","m","e","m","v","e","r">>

\* A backend key: its text, and for a data key the version tokens appended
\* to the hash prefix.
VersionKey(funcname) == [text |-> _memvname(funcname), ver |-> <<>>]

Http == <<"h","t","t","p">>

uuid3(kind, name) == [kind |-> kind, seed |-> name, n |-> 0]

uuid4(n) == [kind |-> "uuid4", seed |-> <<>>, n |-> n]

\* A version hash drawn at random whatever the namespace.
_memoize_make_version_hash_random(namespace, n) == uuid4(n + 1)

\* A version hash derived from the namespace alone, the empty one included.
_memoize_make_version_hash_constant(namespace, n) ==
    uuid3("NAMESPACE_DNS", namespace)

\* The token _memoize_make_version_hash returns when n uuid4 draws have
\* been made before it: the first six base64 characters of a UUID, which
\* the model keeps whole.
_memoize_make_version_hash(namespace, n) ==
    LET first == IF startswith(namespace, Http)
                 THEN uuid3("NAMESPACE_URL", namespace)
                 ELSE PyNone
        UUID == IF namespace # <<>>
                THEN uuid3("NAMESPACE_DNS", namespace)
                ELSE uuid4(n + 1)
    IN  UUID

\* uuid4 draws one call of _memoize_make_version_hash makes.
draws(namespace) == IF namespace = <<>> THEN 1 ELSE 0

fetch_keys_of(fn) ==
    IF fn.ins # <<>>
    THEN <<VersionKey(fn.ns), VersionKey(fn.ins)>>
    ELSE <<VersionKey(fn.ns)>>

fetch_keys(f, args) == fetch_keys_of(function_namespace(f, args))

\* _memoize_version whose reset writes every key it fetched: the
\* function's token as read or made, and a new token for the instance.
version_update_reset_all(c, st, uu, t, keys, read, reset, delete, timeout) ==
    LET v1 == IF read[1] = PyNone
              THEN _memoize_make_version_hash(c.namespace, uu)
              ELSE read[1]
        v3 == _memoize_make_version_hash(c.namespace, uu + 1)
        data == IF Len(keys) = 2 THEN <<v1, v3>> ELSE <<v3>>
    IN  [store |-> cache_set_many(st, keys, data, timeout, c.default_timeout,
                                  t),
         uuids |-> uu + 2 * draws(c.namespace),
         version_data |-> data]

\* _memoize_version that makes the missing tokens and returns them without
\* the set_many that stores them.
version_update_unsaved(c, st, uu, t, keys, read, reset, delete, timeout) ==
    LET v1 == IF read[1] = PyNone
              THEN _memoize_make_version_hash(c.namespace, uu)
              ELSE read[1]
        v2 == IF Len(keys) = 2 /\ read[2] = PyNone
              THEN _memoize_make_version_hash(c.namespace, uu + 1)
              ELSE read[Len(keys)]
    IN  [store |-> st, uuids |-> uu + 2 * draws(c.namespace),
         version_data |-> IF Len(keys) = 2 THEN <<v1, v2>> ELSE <<v1>>]

\* _memoize_version from the tokens read = get_many(*fetch_keys) on: the
\* store and the uuid4 draws it leaves, and the version data it returns
\* (<<>> for None).
version_update(c, st, uu, t, keys, read, reset, delete, timeout) ==
    LET miss1 == read[1] = PyNone
        v1 == IF miss1 THEN _memoize_make_version_hash(c.namespace, uu)
              ELSE read[1]
        uu1 == IF miss1 THEN uu + draws(c.namespace) ELSE uu
        miss2 == Len(keys) = 2 /\ read[2] = PyNone
        v2 == IF miss2 THEN _memoize_make_version_hash(c.namespace, uu1)
              ELSE read[2]
        uu2 == IF miss2 THEN uu1 + draws(c.namespace) ELSE uu1
        data == IF Len(keys) = 2 THEN <<v1, v2>> ELSE <<v1>>
        v3 == _memoize_make_version_hash(c.namespace, uu2)
        uu3 == uu2 + draws(c.namespace)
        dirty == miss1 \/ miss2 \/ reset
        out_keys == IF reset THEN <<keys[Len(keys)]>> ELSE keys
        out_data == IF reset THEN <<v3>> ELSE data
    IN  IF delete
        THEN [store |-> cache_delete_many(st, <<keys[Len(keys)]>>),
              uuids |-> uu, version_data |-> <<>>]
        ELSE [store |-> IF dirty
                        THEN cache_set_many(st, out_keys, out_data, timeout,
                                            c.default_timeout, t)
                        ELSE st,
              uuids |-> IF reset THEN uu3 ELSE uu2,
              version_data |-> out_data]

\* _memoize_version from its fetch_keys on.
version_read(c, st, uu, t, keys, reset, delete, timeout) ==
    version_update(c, st, uu, t, keys, cache_get_many(st, keys, t), reset,
                   delete, timeout)

\* _memoize_version(f, *args, reset=, delete=, timeout=) on store st at time
\* t with uu uuid4 draws made so far.
_memoize_version(c, st, uu, t, f, args, reset, delete, timeout) ==
    version_read(c, st, uu, t, fetch_keys(f, args), reset, delete, timeout)

\* -------------------------------------------------------- cache key builder
\* base64(md5(text))[:16], taken as injective: the text itself.
digest(text) == text

DataKey(altfname, keyargs, version_data) ==
    [text |-> digest(altfname \o repr_tuple(keyargs) \o <<"{", "}">>),
     ver |-> version_data]

\* No cache key: none was made.
NoKey == [text |-> <<>>, ver |-> <<>>]

\* _gen_args raised while the canonical arguments were made.
gen_raises(keyargs) == \E i \in DOMAIN keyargs : keyargs[i] = IndexError

\* make_cache_key appending only the last version token: the instance's
\* when there is one.
cache_key_of_last_token(mv, altfname, keyargs) ==
    [store |-> mv.store, uuids |-> mv.uuids,
     key |-> DataKey(altfname, keyargs,
                     <<mv.version_data[Len(mv.version_data)]>>),
     raised |-> FALSE]

\* make_cache_key from the version mv, the function name and the canonical
\* arguments on: the key, or the error _gen_args raised after the version
\* registry did its work.
cache_key_of(mv, altfname, keyargs) ==
    [store |-> mv.store, uuids |-> mv.uuids,
     key |-> IF gen_raises(keyargs) THEN NoKey
             ELSE DataKey(altfname, keyargs, mv.version_data),
     raised |-> gen_raises(keyargs)]

\* Python's callable(f): the references to functions and methods are, the
\* relative name of a function (a str) is not.
callable(f) == "m_args" \in DOMAIN f

\* The relative name of func, a str, where a function reference is due.
RelativeName == [name |-> "func"]

\* altfname = make_name(fname) if callable(make_name) else fname, for the
\* make_name the function f was memoized with.
altfname(f, fname) ==
    IF "make_name" \in DOMAIN f THEN fname \o f.make_name ELSE fname

\* make_cache_key(f, *args, **kwargs) of a function decorated with
\* cache_timeout = timeout: the version registry's effect and the key.
\* _memoize_version starts with function_namespace, whose getfullargspec(f)
\* raises TypeError when f is not callable.
make_cache_key(c, st, uu, t, timeout, f, args, kwargs) ==
    IF ~callable(f)
    THEN [store |-> st, uuids |-> uu, key |-> NoKey, raised |-> TRUE]
    ELSE cache_key_of(
            _memoize_version(c, st, uu, t, f, args, FALSE, FALSE, timeout),
            altfname(f, function_namespace(f, args).ns),
            _gen_args(f, args, kwargs))

\* ----------------------------------------------------- memoize orchestrator
\* value = f(*args, **kwargs): what the wrapped function returns.
returned(w, args, kwargs) ==
    IF "returns_none" \in DOMAIN w THEN PyNone
    ELSE Ret(bound(w, args, kwargs))

\* decorated that stores the value it returns on a hit as well.
decorated_value_refreshed(c, mk, value, t, set_timeout, w, args, kwargs) ==
    LET miss == value = PyNone
        raised == mk.raised \/ (miss /\ ~binds(w, args, kwargs))
        invoked == miss /\ ~raised
    IN  [store |-> IF raised THEN mk.store
                   ELSE cache_set(mk.store, mk.key,
                                  IF invoked THEN returned(w, args, kwargs)
                                  ELSE value,
                                  set_timeout, c.default_timeout, t),
         uuids |-> mk.uuids,
         key |-> mk.key,
         value |-> IF invoked THEN returned(w, args, kwargs) ELSE value,
         invoked |-> invoked,
         raised |-> raised]

\* decorated from value = cache.get(cache_key) on; the result is stored
\* with set_timeout.
decorated_value(c, mk, value, t, set_timeout, w, args, kwargs) ==
    LET miss == value = PyNone
        raised == mk.raised \/ (miss /\ ~binds(w, args, kwargs))
        invoked == miss /\ ~raised
        result == returned(w, args, kwargs)
    IN  [store |-> IF invoked
                   THEN cache_set(mk.store, mk.key, result, set_timeout,
                                  c.default_timeout, t)
                   ELSE mk.store,
         uuids |-> mk.uuids,
         key |-> mk.key,
         value |-> IF invoked THEN result ELSE value,
         invoked |-> invoked,
         raised |-> raised]

\* decorated that takes a live item holding None for a hit: it returns a
\* value without invoking the function.
decorated_found(c, mk, t, set_timeout, w, args, kwargs) ==
    decorated_value(c, mk,
                    IF mk.key \in DOMAIN mk.store
                           /\ cache_get(mk.store, mk.key, t) = PyNone
                           /\ (mk.store[mk.key].expires = 0
                                   \/ mk.store[mk.key].expires > t)
                    THEN Ret(<<>>)
                    ELSE cache_get(mk.store, mk.key, t),
                    t, set_timeout, w, args, kwargs)

\* decorated from its cache key mk on.
decorated_get(c, mk, t, set_timeout, w, args, kwargs) ==
    decorated_value(c, mk, cache_get(mk.store, mk.key, t), t, set_timeout, w,
                    args, kwargs)

\* decorated storing the result with timeout 0, which never expires.
decorated_never_expires(c, st, uu, t, timeout, w, args, kwargs) ==
    decorated_get(c, make_cache_key(c, st, uu, t, timeout, w, args, kwargs),
                  t, <<0>>, w, args, kwargs)

\* decorated storing the result, and a version token it creates, with the
\* cache's default timeout.
decorated_default_timeout(c, st, uu, t, timeout, w, args, kwargs) ==
    decorated_get(c, make_cache_key(c, st, uu, t, <<>>, w, args, kwargs),
                  t, <<>>, w, args, kwargs)

\* decorated(*args, **kwargs) for the wrapped function w: what the call
\* leaves and returns.
decorated(c, st, uu, t, timeout, w, args, kwargs) ==
    decorated_get(c, make_cache_key(c, st, uu, t, timeout, w, args, kwargs),
                  t, timeout, w, args, kwargs)

\* What a call of the wrapped function itself leaves and returns: no key
\* is made and the backend is not reached.
uncached_call(st, uu, w, args, kwargs) ==
    [store |-> st, uuids |-> uu, key |-> NoKey,
     value |-> IF binds(w, args, kwargs) THEN Ret(bound(w, args, kwargs))
               ELSE PyNone,
     invoked |-> binds(w, args, kwargs),
     raised |-> ~binds(w, args, kwargs)]

\* decorated that goes to the cache whatever unless() returns.
decorated_unless_ignored(c, st, uu, t, timeout, unless, w, args, kwargs) ==
    decorated(c, st, uu, t, timeout, w, args, kwargs)

\* decorated(*args, **kwargs) of a function memoized with an unless
\* predicate, unless being what the predicate returns at this call.
decorated_unless(c, st, uu, t, timeout, unless, w, args, kwargs) ==
    IF unless THEN uncached_call(st, uu, w, args, kwargs)
    ELSE decorated(c, st, uu, t, timeout, w, args, kwargs)

\* delete_memoized(f) that loses f's receiver: the function's own token is
\* reset, as for Klass.method.
delete_memoized_all_unbound(c, st, uu, t, f) ==
    _memoize_version(c, st, uu, t, [f EXCEPT !.self = <<>>], <<>>, TRUE,
                     FALSE, <<>>)

\* delete_memoized(f) with no call arguments, f a function reference.
delete_memoized_all(c, st, uu, t, f) ==
    _memoize_version(c, st, uu, t, f, <<>>, TRUE, FALSE, <<>>)

\* cache.delete(cache_key) for the key made.
delete_key(mk) ==
    [store |-> IF mk.raised THEN mk.store ELSE cache_delete(mk.store, mk.key),
     uuids |-> mk.uuids, key |-> mk.key, invoked |-> FALSE,
     raised |-> mk.raised]

\* delete_memoized(f, *args, **kwargs) with call arguments:
\* f.make_cache_key(f.uncached, *args, **kwargs), then cache.delete.
delete_memoized_args(c, st, uu, t, timeout, w, args, kwargs) ==
    delete_key(make_cache_key(c, st, uu, t, timeout, w, args, kwargs))

\* ----------------------------------------------------------- state machine
VARIABLES
    cfg,            \* the Cache: its namespace and CACHE_DEFAULT_TIMEOUT
    cache_timeout,  \* decorated.cache_timeout of each memoized function
    store,          \* the backend's table
    now,            \* the backend's clock
    uuids,          \* uuid4 draws made so far
    last,           \* the last operation and how it ended
    flight          \* the memoized calls under way in each thread

vars == <<cfg, cache_timeout, store, now, uuids, last, flight>>

\* The threads that make memoized calls step by step, next to the
\* operations that run from start to end.
Threads == {1, 2}

ThreadName(th) == IF th = 1 THEN "thread1" ELSE "thread2"

\* A thread that has made no memoized call yet.  A thread that is not
\* inside a call (pc = "idle") keeps the call it made last, the key it used,
\* the value it returned and whether it invoked the wrapped function.
Idle ==
    [pc |-> "idle", fname |-> "", call |-> [args |-> <<>>, kwargs |-> <<>>],
     read |-> <<>>, key |-> NoKey, value |-> PyNone, invoked |-> FALSE]

Namespaces == {<<>>, <<"n", "s">>, Http \o <<":", "/", "/", "x">>}

DefaultTimeouts == {1}

\* memoize(timeout): None (<<>>), 0 (never expires) or a number of ticks.
Timeouts == {<<>>, <<0>>, <<2>>}

RECURSIVE Positionals(_)
Positionals(names) ==
    IF names = <<>> THEN {<<>>}
    ELSE {<<v>> \o rest : v \in ArgVals(names[1]),
                          rest \in Positionals(Tail(names))}

Keywords(names) ==
    UNION {{k \in [D -> {None, V1, V5}] : \A m \in D : k[m] \in ArgVals(m)} :
           D \in SUBSET names}

\* Every split of the parameters names into leading positional arguments
\* and keyword arguments, missing arguments included.
CallForms(names) ==
    UNION {{[args |-> a, kwargs |-> k] :
                a \in Positionals(SubSeq(names, 1, n)),
                k \in Keywords({names[i] : i \in (n + 1)..Len(names)})} :
           n \in 0..Len(names)}

\* The call with one more keyword argument, of a name z that the function
\* does not declare.
WithKeyword(call) ==
    [args |-> call.args,
     kwargs |-> [m \in DOMAIN call.kwargs \cup {"z"} |->
                    IF m = "z" THEN V1 ELSE call.kwargs[m]]]

\* The call with one more positional argument.
WithPositional(call) == [args |-> call.args \o <<V1>>, kwargs |-> call.kwargs]

\* The calls that differ from a call of f only in arguments beyond f's
\* declared parameters: an undeclared keyword, or a positional argument
\* after one for each declared parameter.
Surplus(f, call) ==
    {WithKeyword(call)} \cup
        IF Len(call.args) = Len(f.m_args) THEN {WithPositional(call)} ELSE {}

\* The calls of func the program makes.
FuncCalls == CallForms(Func.m_args)

\* The calls of func that pass an argument.
ArgCalls == {call \in FuncCalls : call.args # <<>> \/ DOMAIN call.kwargs # {}}

\* The calls of func with positional arguments only.
PositionalCalls == {call \in FuncCalls : DOMAIN call.kwargs = {}}

\* The calls func(a) that leave b to its default.
OneArgCalls == {call \in PositionalCalls : Len(call.args) = 1}

AddForms == CallForms(Tail(Add.m_args))

\* The forms of add's arguments that pass one.
AddArgForms ==
    {call \in AddForms : call.args # <<>> \/ DOMAIN call.kwargs # {}}

\* The calls Adder.add(...) through the class that pass no positional
\* argument: nothing stands for self.
UnboundCalls == {call \in AddForms : call.args = <<>>}

\* The call o.add(...): the receiver comes first among the positionals.
MethodCall(o, call) ==
    [args |-> <<Repr(o)>> \o call.args, kwargs |-> call.kwargs]

AddCalls(o) == {MethodCall(o, call) : call \in AddForms}

\* The call Mock.func(...): Python passes the class first.
ClassCall(call) ==
    [args |-> <<ReprMock>> \o call.args, kwargs |-> call.kwargs]

MockCalls == {ClassCall(call) : call \in CallForms(Tail(MockFunc.m_args))}

\* The objects passed for the parameter m_arg: each has the text its
\* __repr__ returns and an attribute value the text does not show.
Objects(m_arg) == [repr : ArgVals(m_arg), value : {14, 15}]

\* The call pair(x, y) of two objects: what reaches the key is repr(x) and
\* repr(y), taken when the argument tuple is formatted.
PairCall(x, y) == [args |-> <<x.repr, y.repr>>, kwargs |-> <<>>]

\* The data items of a table: the keys that carry version tokens.
DataItems(st) == {k \in DOMAIN st : k.ver # <<>>}

Outcome(op, recv, invoked, raised) ==
    [op |-> op, recv |-> recv, invoked |-> invoked, raised |-> raised]

\* A Cache over an empty backend, and the functions memoized on it.
Setup(namespaces, timeouts) ==
    /\ cfg \in [namespace : namespaces, default_timeout : DefaultTimeouts]
    /\ \E T \in timeouts : cache_timeout = [f \in FuncNames |-> T]
    /\ store = <<>>
    /\ now = 0
    /\ uuids = 0
    /\ last = Outcome("init", "", FALSE, FALSE)
    /\ flight = [th \in Threads |-> Idle]

Init == Setup(Namespaces, Timeouts)

\* What the memoized call fname(*call.args, **call.kwargs) does in the
\* current state, and in the state a step leads to.
Try(fname, call) ==
    decorated(cfg, store, uuids, now, cache_timeout[fname],
              Uncached(fname), call.args, call.kwargs)

TryNext(fname, call) ==
    decorated(cfg', store', uuids', now', cache_timeout'[fname],
              Uncached(fname), call.args, call.kwargs)

\* The call was served from the cache.
Hit(r) == ~r.invoked /\ ~r.raised

\* What an operation op on receiver recv that leaves and returns r does to
\* the backend.
Step(op, recv, r) ==
    /\ r.uuids <= MaxUuid
    /\ Cardinality(DataItems(r.store)) <= MaxItems
    /\ store' = r.store
    /\ uuids' = r.uuids
    /\ last' = Outcome(op, recv, r.invoked, r.raised)

\* An invalidation that empties the backend, as cache.clear() does.
Deleted_flushed(r) ==
    [store |-> <<>>, uuids |-> r.uuids, invoked |-> FALSE, raised |-> FALSE]

\* What an invalidation leaves: it invokes nothing and returns None.
Deleted(r) ==
    [store |-> r.store, uuids |-> r.uuids, invoked |-> FALSE,
     raised |-> FALSE]

\* An invalidation that empties the backend before it raises.
Raised_cleared(st, uu) ==
    [store |-> <<>>, uuids |-> uu, invoked |-> FALSE, raised |-> TRUE]

\* What an invalidation that raises leaves: the backend as it found it.
Raised(st, uu) ==
    [store |-> st, uuids |-> uu, invoked |-> FALSE, raised |-> TRUE]

\* cache.delete_memoized(f, *args, **kwargs), timeouts holding each
\* function's cache_timeout.
delete_memoized(c, st, uu, t, timeouts, f, args, kwargs) ==
    IF ~callable(f) THEN Raised(st, uu)
    ELSE IF args = <<>> /\ DOMAIN kwargs = {}
    THEN Deleted(delete_memoized_all(c, st, uu, t, f))
    ELSE delete_memoized_args(c, st, uu, t, timeouts[f.name],
                              Uncached(f.name), args, kwargs)

\* delete_memoized_verhash removing every version key of the reference:
\* the function's too when f is bound.
delete_memoized_verhash_all(c, st, uu, t, f) ==
    IF ~callable(f) THEN Raised(st, uu)
    ELSE Deleted([store |-> cache_delete_many(st, fetch_keys(f, <<>>)),
                  uuids |-> uu])

\* cache.delete_memoized_verhash(f).
delete_memoized_verhash(c, st, uu, t, f) ==
    IF ~callable(f) THEN Raised(st, uu)
    ELSE Deleted(_memoize_version(c, st, uu, t, f, <<>>, FALSE, TRUE, <<>>))

\* A memoized call: func(...) when recv = "", else recv.add(...).
Call(fname, recv, call) == Step("call", recv, Try(fname, call))

\* No operation changes the configuration, and none takes time.
Instant == UNCHANGED <<cfg, cache_timeout, now, flight>>

CallFunc ==
    \E call \in FuncCalls :
        /\ Call("func", "", call)
        /\ Instant

\* A call of func with an argument beyond its declared parameters.
CallExtra ==
    \E call \in PositionalCalls :
        \E extra \in Surplus(Func, call) :
            /\ Step("call_extra", "", Try("func", extra))
            /\ Instant

CallPositional ==
    \E call \in PositionalCalls :
        /\ Call("func", "", call)
        /\ Instant

CallAdd ==
    \E o \in Instances :
        \E call \in AddCalls(o) :
            /\ Call("add", o, call)
            /\ Instant

\* cache.delete_memoized(f) for a reference f, called with no arguments.
DeleteMemoized(recv, f) ==
    Step("delete_memoized", recv,
         delete_memoized(cfg, store, uuids, now, cache_timeout, f, <<>>,
                         <<>>))

\* delete_memoized(func)
DeleteFunction ==
    /\ DeleteMemoized("", Decorated(Func))
    /\ Instant

\* delete_memoized(Adder.add)
DeleteClass ==
    /\ DeleteMemoized("", Decorated(Add))
    /\ Instant

\* delete_memoized(o.add)
DeleteInstance ==
    \E o \in Instances :
        /\ DeleteMemoized(o, Bound(Add, o))
        /\ Instant

\* A call of add on one of the receivers with the same repr.
CallTwin ==
    \E o \in Twins :
        \E call \in AddCalls(o) :
            /\ Call("add", o, call)
            /\ Instant

\* delete_memoized(o.add) for one of the receivers with the same repr.
DeleteTwin ==
    \E o \in Twins :
        /\ DeleteMemoized(o, Bound(Add, o))
        /\ Instant

\* delete_memoized(o.add, *call.args, **call.kwargs): the bound method and
\* the arguments of a call of it.
DeleteMethodWith(o, call) ==
    Step("delete_args", o,
         delete_memoized(cfg, store, uuids, now, cache_timeout,
                         Bound(Add, o), call.args, call.kwargs))

DeleteMethodArgs ==
    \E o \in Instances :
        \E call \in AddArgForms :
            /\ DeleteMethodWith(o, call)
            /\ Instant

\* A call of add on one of the two separate receivers.
CallSeparate ==
    \E o \in Separates :
        \E call \in AddCalls(o) :
            /\ Call("add", o, call)
            /\ Instant

\* delete_memoized(o.add) for one of the two separate receivers.
DeleteSeparate ==
    \E o \in Separates :
        /\ DeleteMemoized(o, Bound(Add, o))
        /\ Instant

\* cache.delete_memoized_verhash(f) for a reference f.
DeleteVerhashOf(recv, f) ==
    Step("delete_memoized_verhash", recv,
         delete_memoized_verhash(cfg, store, uuids, now, f))

\* delete_memoized_verhash(o.add)
VerhashSeparate ==
    \E o \in Separates :
        /\ DeleteVerhashOf(o, Bound(Add, o))
        /\ Instant

\* delete_memoized_verhash(Adder.add)
VerhashClass ==
    /\ DeleteVerhashOf("", Decorated(Add))
    /\ Instant

\* Adder.add(...) called through the class with no positional argument.
CallUnbound ==
    \E call \in UnboundCalls :
        /\ Call("add", "", call)
        /\ Instant

\* A call of the classmethod.
CallClassmethod ==
    \E call \in MockCalls :
        /\ Call("Mock.func", "Mock", call)
        /\ Instant

\* delete_memoized(Mock.func).
DeleteClassmethod ==
    /\ DeleteMemoized("Mock", ClassBound(MockFunc))
    /\ Instant

\* A call of func memoized with an unless predicate, which returns true
\* (the call bypasses the cache) or false.
CallUnless ==
    \E call \in PositionalCalls : \E unless \in BOOLEAN :
        /\ Step(IF unless THEN "bypass" ELSE "call", "",
                decorated_unless(cfg, store, uuids, now, cache_timeout["func"],
                                 unless, Func, call.args, call.kwargs))
        /\ Instant

\* A call pair(x, y).
CallPair ==
    \E x \in Objects("x") : \E y \in Objects("y") :
        /\ Call("pair", "", PairCall(x, y))
        /\ Instant

\* delete_memoized(pair)
DeletePair ==
    /\ DeleteMemoized("", Decorated(Pair))
    /\ Instant

\* delete_memoized_verhash(func)
DeleteVerhash ==
    /\ Step("delete_memoized_verhash", "",
            delete_memoized_verhash(cfg, store, uuids, now, Decorated(Func)))
    /\ Instant

\* delete_memoized(func, *call.args, **call.kwargs)
DeleteWith(call) ==
    Step("delete_args", "",
         delete_memoized(cfg, store, uuids, now, cache_timeout,
                         Decorated(Func), call.args, call.kwargs))

DeleteArgs ==
    \E call \in ArgCalls :
        /\ DeleteWith(call)
        /\ Instant

\* delete_memoized('func', ...): the relative name instead of the function.
DeleteByName ==
    \E call \in FuncCalls :
        /\ Step("delete_memoized", "name",
                delete_memoized(cfg, store, uuids, now, cache_timeout,
                                RelativeName, call.args, call.kwargs))
        /\ Instant

\* func.make_cache_key(f, ...): the key builder called directly, with the
\* uncached function or with its relative name in the function position.
MakeCacheKey(f) ==
    \E call \in PositionalCalls :
        \E mk \in {make_cache_key(cfg, store, uuids, now, cache_timeout["func"],
                                  f, call.args, call.kwargs)} :
            /\ Step("make_cache_key", "",
                    [store |-> mk.store, uuids |-> mk.uuids,
                     invoked |-> FALSE, raised |-> mk.raised])
            /\ Instant

\* func.make_cache_key(func.uncached, ...)
MakeKey == MakeCacheKey(Func)

\* func.make_cache_key('func', ...)
MakeKeyByName == MakeCacheKey(RelativeName)

\* nothing()
CallNothing ==
    /\ Call("nothing", "", [args |-> <<>>, kwargs |-> <<>>])
    /\ Instant

\* delete_memoized(nothing)
DeleteNothing ==
    /\ DeleteMemoized("", Decorated(Nothing))
    /\ Instant

\* A call of named, the function memoized with a make_name override.
CallNamed ==
    \E call \in FuncCalls :
        /\ Call("named", "", call)
        /\ Instant

\* delete_memoized(named)
DeleteNamed ==
    /\ DeleteMemoized("", Decorated(Named))
    /\ Instant

\* delete_memoized(named, *call.args, **call.kwargs)
DeleteNamedWith(call) ==
    Step("delete_args", "",
         delete_memoized(cfg, store, uuids, now, cache_timeout,
                         Decorated(Named), call.args, call.kwargs))

DeleteNamedArgs ==
    \E call \in ArgCalls :
        /\ DeleteNamedWith(call)
        /\ Instant

\* delete_memoized_verhash('func')
DeleteVerhashByName ==
    /\ Step("delete_memoized_verhash", "name",
            delete_memoized_verhash(cfg, store, uuids, now, RelativeName))
    /\ Instant

\* A call func(a).
CallOneArg ==
    \E call \in OneArgCalls :
        /\ Call("func", "", call)
        /\ Instant

\* func.cache_timeout = T
SetTimeout ==
    \E T \in Timeouts :
        /\ cache_timeout' = [cache_timeout EXCEPT !["func"] = T]
        /\ last' = Outcome("cache_timeout", "", FALSE, FALSE)
        /\ UNCHANGED <<cfg, store, now, uuids, flight>>

\* What the call in thread th computes when it invokes the wrapped
\* function: the function's result, marked with the thread that computed it.
Computed(th) ==
    [returned(Uncached(flight[th].fname), flight[th].call.args,
              flight[th].call.kwargs) EXCEPT !.n = th]

\* A thread enters decorated, make_cache_key and _memoize_version, and
\* reads the version tokens: version_data_list = get_many(*fetch_keys).
FlightRead(th, fname, call) ==
    /\ flight[th].pc = "idle"
    /\ flight' = [flight EXCEPT ![th] =
                     [pc |-> "read", fname |-> fname, call |-> call,
                      read |-> cache_get_many(
                                  store,
                                  fetch_keys(Uncached(fname), call.args),
                                  now),
                      key |-> NoKey, value |-> PyNone, invoked |-> FALSE]]
    /\ last' = Outcome("get_many", ThreadName(th), FALSE, FALSE)
    /\ UNCHANGED <<cfg, cache_timeout, store, now, uuids>>

\* The thread goes on from the tokens it read: it makes the missing ones,
\* writes the batch with set_many when it made one, and builds its key.
FlightKey(th, w, args, kwargs) ==
    \E mk \in {cache_key_of(
                   version_update(cfg, store, uuids, now, fetch_keys(w, args),
                                  flight[th].read, FALSE, FALSE,
                                  cache_timeout[flight[th].fname]),
                   altfname(w, function_namespace(w, args).ns),
                   _gen_args(w, args, kwargs))} :
        /\ mk.uuids <= MaxUuid
        /\ store' = mk.store
        /\ uuids' = mk.uuids
        /\ flight' = [flight EXCEPT ![th].pc = "keyed", ![th].key = mk.key]

FlightWrite(th) ==
    /\ flight[th].pc = "read"
    /\ FlightKey(th, Uncached(flight[th].fname), flight[th].call.args,
                 flight[th].call.kwargs)
    /\ last' = Outcome("set_many", ThreadName(th), FALSE, FALSE)
    /\ UNCHANGED <<cfg, cache_timeout, now>>

\* value = self.cache.get(cache_key): on a hit decorated returns, on a miss
\* it invokes the wrapped function.
FlightGet(th) ==
    /\ flight[th].pc = "keyed"
    /\ IF cache_get(store, flight[th].key, now) # PyNone
       THEN /\ flight' = [flight EXCEPT
                             ![th].pc = "idle",
                             ![th].value = cache_get(store, flight[th].key,
                                                     now)]
            /\ last' = Outcome("call", ThreadName(th), FALSE, FALSE)
       ELSE /\ flight' = [flight EXCEPT ![th].pc = "missed"]
            /\ last' = Outcome("get", ThreadName(th), TRUE, FALSE)
    /\ UNCHANGED <<cfg, cache_timeout, store, now, uuids>>

\* set_cache that keeps an item already stored under the key (cache.add
\* in place of cache.set): the first write stays.
FlightSet_add(th) ==
    /\ flight[th].pc = "missed"
    /\ store' = IF cache_get(store, flight[th].key, now) # PyNone THEN store
                ELSE cache_set(store, flight[th].key, Computed(th),
                               cache_timeout[flight[th].fname],
                               cfg.default_timeout, now)
    /\ flight' = [flight EXCEPT ![th].pc = "idle",
                                ![th].value = Computed(th),
                                ![th].invoked = TRUE]
    /\ last' = Outcome("call", ThreadName(th), TRUE, FALSE)
    /\ UNCHANGED <<cfg, cache_timeout, now, uuids>>

\* set_cache under a key made anew from the token the backend holds when
\* the value is stored, in place of the key built before the read.
FlightSet_rekeyed(th) ==
    /\ flight[th].pc = "missed"
    /\ store' = cache_set(store,
                          [flight[th].key EXCEPT !.ver =
                              cache_get_many(
                                  store,
                                  fetch_keys(Uncached(flight[th].fname),
                                             flight[th].call.args),
                                  now)],
                          Computed(th), cache_timeout[flight[th].fname],
                          cfg.default_timeout, now)
    /\ flight' = [flight EXCEPT ![th].pc = "idle",
                                ![th].value = Computed(th),
                                ![th].invoked = TRUE]
    /\ last' = Outcome("call", ThreadName(th), TRUE, FALSE)
    /\ UNCHANGED <<cfg, cache_timeout, now, uuids>>

\* The wrapped function has returned: set_cache stores the value under the
\* key built before, and decorated returns.
FlightSet(th) ==
    /\ flight[th].pc = "missed"
    /\ store' = cache_set(store, flight[th].key, Computed(th),
                          cache_timeout[flight[th].fname],
                          cfg.default_timeout, now)
    /\ flight' = [flight EXCEPT ![th].pc = "idle",
                                ![th].value = Computed(th),
                                ![th].invoked = TRUE]
    /\ last' = Outcome("call", ThreadName(th), TRUE, FALSE)
    /\ UNCHANGED <<cfg, cache_timeout, now, uuids>>

\* A thread starts the call func(1).
StartFunc ==
    \E th \in Threads :
        FlightRead(th, "func", [args |-> <<V1>>, kwargs |-> <<>>])

\* A thread starts the call o.add(5) on one of the separate receivers.
StartAdd ==
    \E th \in Threads : \E o \in Separates :
        FlightRead(th, "add", [args |-> <<Repr(o), V5>>, kwargs |-> <<>>])

\* delete_memoized(func, 1)
DeleteOne ==
    /\ DeleteWith([args |-> <<V1>>, kwargs |-> <<>>])
    /\ Instant

\* A thread inside a memoized call takes its next step.
WriteTokens == \E th \in Threads : FlightWrite(th)

ReadValue == \E th \in Threads : FlightGet(th)

StoreValue == \E th \in Threads : FlightSet(th)

\* The keys and the values the program stores in the spreading backend: a
\* value that fits in one item, values of two and of three chunks, and one
\* of four chunks, more than MAXCHUNKS.
SpreadKeys == {[text |-> <<"k">>, ver |-> <<>>], [text |-> <<"j">>, ver |-> <<>>]}

SpreadValues ==
    {Obj(<<"a">>), Obj(<<"a", "a", "a">>), Obj(<<"b", "b", "b">>),
     Obj(<<"a", "b", "a", "b", "a">>), Obj(<<"c", "c", "c", "c", "c", "c", "c">>)}

\* cache.set(key, value) on the spreading backend.
SpreadSetOf(key, value) ==
    \E r \in {spread_set(store, key, value, <<>>, cfg.default_timeout, now)} :
        /\ store' = r.store
        /\ last' = Outcome("spread_set", "", FALSE, r.raised)
        /\ UNCHANGED <<cfg, cache_timeout, now, uuids, flight>>

SpreadSet ==
    \E key \in SpreadKeys : \E value \in SpreadValues : SpreadSetOf(key, value)

\* cache.delete(key) on the spreading backend.
SpreadDeleteOf(key) ==
    /\ store' = spread_delete(store, key, now)
    /\ last' = Outcome("spread_delete", "", FALSE, FALSE)
    /\ UNCHANGED <<cfg, cache_timeout, now, uuids, flight>>

SpreadDelete == \E key \in SpreadKeys : SpreadDeleteOf(key)

\* The clock advances between operations.
Tick ==
    /\ now < MaxTime
    /\ now' = now + 1
    /\ last' = Outcome("tick", "", FALSE, FALSE)
    /\ UNCHANGED <<cfg, cache_timeout, store, uuids, flight>>

Next ==
    \/ CallFunc
    \/ CallPositional
    \/ CallAdd
    \/ DeleteFunction
    \/ DeleteClass
    \/ DeleteInstance
    \/ DeleteArgs
    \/ CallClassmethod
    \/ DeleteClassmethod
    \/ DeleteVerhash
    \/ DeleteByName
    \/ DeleteVerhashByName
    \/ CallUnless
    \/ CallOneArg
    \/ CallPair
    \/ DeletePair
    \/ SetTimeout
    \/ CallTwin
    \/ DeleteTwin
    \/ DeleteMethodArgs
    \/ CallSeparate
    \/ DeleteSeparate
    \/ VerhashSeparate
    \/ VerhashClass
    \/ CallUnbound
    \/ MakeKey
    \/ MakeKeyByName
    \/ CallNamed
    \/ DeleteNamed
    \/ DeleteNamedArgs
    \/ CallExtra
    \/ CallNothing
    \/ DeleteNothing
    \/ StartFunc
    \/ StartAdd
    \/ WriteTokens
    \/ ReadValue
    \/ StoreValue
    \/ DeleteOne
    \/ SpreadSet
    \/ SpreadDelete
    \/ Tick

Spec == Init /\ [][Next]_vars

\* A program that memoizes the plain function and calls it positionally as
\* time passes, never invalidating.
NextTime ==
    \/ CallPositional
    \/ Tick

SpecTime == Init /\ [][NextTime]_vars

\* The programs below run within one tick.
InitFunc == Setup(Namespaces, {<<2>>})

\* A program that memoizes the plain function, calls it in every form and
\* invalidates all its cached values or single argument combinations.
NextFunc ==
    \/ CallFunc
    \/ DeleteFunction
    \/ DeleteArgs

SpecFunc == InitFunc /\ [][NextFunc]_vars

\* A program that memoizes the method, calls and invalidates it.
NextAdd ==
    \/ CallAdd
    \/ DeleteClass
    \/ DeleteInstance

SpecAdd == InitFunc /\ [][NextAdd]_vars

\* ------------------------------------------------------------------ claims
\* Python binds both calls of func, and to the same values.
Equivalent(c1, c2) ==
    /\ binds(Func, c1.args, c1.kwargs)
    /\ binds(Func, c2.args, c2.kwargs)
    /\ bound(Func, c1.args, c1.kwargs) = bound(Func, c2.args, c2.kwargs)

\* The effective values of c2 are not those of the call c1 Python binds:
\* another value for some parameter, or a required parameter left out.
Different(c1, c2) ==
    /\ binds(Func, c1.args, c1.kwargs)
    /\ \/ ~binds(Func, c2.args, c2.kwargs)
       \/ bound(Func, c1.args, c1.kwargs) # bound(Func, c2.args, c2.kwargs)

\* C1: call forms that bind the same values to func's parameters (None
\* included; positional, keyword, mixed, default omitted or given) have the
\* same canonical argument sequence and the same cache key: when the value
\* of one is cached, a call of the other returns it without invoking func.
C1_EquivalentFormsShareKey ==
    \A c1, c2 \in FuncCalls :
        (Equivalent(c1, c2) /\ Hit(Try("func", c1))) =>
            /\ _gen_args(Func, c1.args, c1.kwargs)
                  = _gen_args(Func, c2.args, c2.kwargs)
            /\ Try("func", c1).key = Try("func", c2).key
            /\ Hit(Try("func", c2))
            /\ Try("func", c2).value = Try("func", c1).value

\* C2: calls of func whose effective values differ in some parameter (a
\* keyword given as None against a non-None default, a required parameter
\* left out against an explicit None) have different cache keys: when the
\* value of one is cached, a call of the other is not served that value.
C2_DifferentValuesDifferentKeys ==
    \A c1, c2 \in FuncCalls :
        (Different(c1, c2) /\ Hit(Try("func", c1))) =>
            /\ Try("func", c1).key # Try("func", c2).key
            /\ Hit(Try("func", c2)) =>
                  Try("func", c2).value # Try("func", c1).value

\* The timeout the values of func are stored with: memoize(timeout), or
\* the cache's default when that is None.
Lifetime ==
    IF cache_timeout["func"] = <<>> THEN cfg.default_timeout
    ELSE cache_timeout["func"][1]

\* The items that hold the value of the call c of func.
ItemsOf(c) ==
    {k \in DataItems(store) :
        store[k].value = Ret(bound(Func, c.args, c.kwargs))}

\* C3: with a timeout T > 0 and no invalidation, once a call of func has
\* stored its value at time t, the same call before t + T is served that
\* value without invoking func, whatever calls came before t.
C3_ServedWithinTimeout ==
    \A c \in PositionalCalls :
        \A k \in ItemsOf(c) :
            (/\ binds(Func, c.args, c.kwargs)
             /\ Lifetime > 0
             /\ now < store[k].stored + Lifetime) =>
                /\ Hit(Try("func", c))
                /\ Try("func", c).value = store[k].value

\* C4: with a timeout T > 0, a call of func at or after t + T, t the last
\* time its value was stored, is not served from the cache: func is
\* invoked again and its result is stored afresh.
C4_ExpiredIsRecomputed ==
    \A c \in PositionalCalls :
        (/\ binds(Func, c.args, c.kwargs)
         /\ Lifetime > 0
         /\ ItemsOf(c) # {}
         /\ \A k \in ItemsOf(c) : now >= store[k].stored + Lifetime) =>
            LET r == Try("func", c)
            IN  /\ r.invoked
                /\ r.key \in DOMAIN r.store
                /\ r.store[r.key].stored = now
                /\ r.store[r.key].value = r.value

\* A call of func has just been recomputed after its stored value, T old
\* or older, had expired.
C4_Witness ==
    /\ last.op = "call"
    /\ last.invoked
    /\ Lifetime > 0
    /\ \E c \in PositionalCalls :
          \E k1, k2 \in ItemsOf(c) :
              /\ store[k1].stored + Lifetime <= now
              /\ store[k2].stored = now

\* C5: with or without a namespace, right after delete_memoized(func) no
\* call of func is served from the cache: each one Python binds invokes
\* func again.
C5_ResetInvalidatesAll ==
    last.op = "delete_memoized" =>
        \A c \in FuncCalls :
            binds(Func, c.args, c.kwargs) => Try("func", c).invoked

\* The key func's version token is stored under.
FuncVersionKey == fetch_keys(Decorated(Func), <<>>)[1]

\* C6: for every namespace (empty, non-empty, starting with "http") each
\* delete_memoized(func) leaves a version token other than the one it
\* found.
C6_ResetSwapsToken ==
    [][(DeleteFunction /\ FuncVersionKey \in DOMAIN store) =>
          store'[FuncVersionKey].value # store[FuncVersionKey].value]_vars

\* C7: when func's value for some arguments is cached, delete_memoized(func,
\* ...) with any equivalent form of those arguments removes it: the next
\* call with them invokes func again.
C7_DeleteAnyEquivalentForm ==
    [][\A c1 \in FuncCalls, c2 \in ArgCalls :
          (/\ Equivalent(c1, c2)
           /\ Hit(Try("func", c1))
           /\ DeleteWith(c2)) =>
              /\ Try("func", c1).key \notin DOMAIN store'
              /\ TryNext("func", c1).invoked]_vars

\* The keys of the version tokens in a table.
VersionItems(st) == DOMAIN st \ DataItems(st)

\* C8: delete_memoized(func, ...) removes at most one data item; every
\* cached value of a different argument combination is still served
\* without invoking func, and every version token is left as it was.
C8_DeleteOnlyThatCombination ==
    [][\A c2 \in ArgCalls :
          DeleteWith(c2) =>
              /\ Cardinality(DataItems(store) \ DataItems(store')) <= 1
              /\ \A k \in VersionItems(store) :
                    k \in DOMAIN store' /\ store'[k].value = store[k].value
              /\ \A c1 \in FuncCalls :
                    (Different(c1, c2) /\ Hit(Try("func", c1))) =>
                        /\ Hit(TryNext("func", c1))
                        /\ TryNext("func", c1).value = Try("func", c1).value
      ]_vars

\* What the call form c of add does on each instance.
Outcomes(c) ==
    {[o |-> o, r |-> Try("add", MethodCall(o, c))] : o \in Instances}

\* C9: two instances of Adder with different repr texts calling add with
\* the same arguments use different cache keys, and a call served from the
\* cache gets the value computed for its own receiver.
C9_InstancesHaveOwnKeys ==
    \A c \in AddForms :
        \A p1, p2 \in Outcomes(c) :
            Repr(p1.o) # Repr(p2.o) =>
                /\ p1.r.key # p2.r.key
                /\ Hit(p1.r) =>
                      p1.r.value
                        = Ret(bound(Add, MethodCall(p1.o, c).args, c.kwargs))

\* adder1 and adder2, whose instance namespaces coincide, both hold a
\* cached value of add for the same argument, and the last call was served
\* from the cache.
C9_Witness ==
    /\ last.op = "call"
    /\ Hit(last)
    /\ \E c \in AddForms :
          /\ Hit(Try("add", MethodCall("adder1", c)))
          /\ Hit(Try("add", MethodCall("adder2", c)))

\* The instance namespaces of the two receivers differ.
Separate(o1, o2) ==
    function_namespace(Bound(Add, o1), <<>>).ins
      # function_namespace(Bound(Add, o2), <<>>).ins

NextAddClass ==
    \/ CallAdd
    \/ DeleteClass

SpecAddClass == InitFunc /\ [][NextAddClass]_vars

\* C11: without a namespace, delete_memoized(Adder.add) invalidates the
\* cached values of add for every instance: right after it, each call of
\* add that Python binds, on any instance, invokes the method again.
C11_DeleteClassInvalidatesAll ==
    [][(cfg.namespace = <<>> /\ last'.recv = "" /\ DeleteClass) =>
          \A o \in Instances :
              \A c \in AddForms :
                  binds(Add, MethodCall(o, c).args, c.kwargs) =>
                      TryNext("add", MethodCall(o, c)).invoked]_vars

\* Without a namespace, delete_memoized(Adder.add) has just run while the
\* backend holds values of add stored for adder1 and for adder3; neither is
\* served any more.
C11_Witness ==
    /\ cfg.namespace = <<>>
    /\ last.op = "delete_memoized"
    /\ last.recv = ""
    /\ \E c \in AddForms :
          \A o \in {"adder1", "adder3"} :
              LET co == MethodCall(o, c)
              IN  /\ \E k \in DataItems(store) :
                        store[k].value = Ret(bound(Add, co.args, co.kwargs))
                  /\ Try("add", co).invoked

\* The classmethod alone: its calls and the delete through the class.
NextClassmethod ==
    \/ CallClassmethod
    \/ DeleteClassmethod

SpecClassmethod == InitFunc /\ [][NextClassmethod]_vars

\* C12: without a namespace, delete_memoized(Mock.func) invalidates every
\* cached call of the classmethod whatever its (a, b): right after it, each
\* call that Python binds invokes the function again.
C12_DeleteClassmethodInvalidatesAll ==
    [][(cfg.namespace = <<>> /\ DeleteClassmethod) =>
          \A c \in MockCalls :
              binds(MockFunc, c.args, c.kwargs) =>
                  TryNext("Mock.func", c).invoked]_vars

\* Without a namespace, delete_memoized(Mock.func) has just run while the
\* backend holds values stored for two calls with different (a, b); neither
\* call is served any more.
C12_Witness ==
    /\ cfg.namespace = <<>>
    /\ last.op = "delete_memoized"
    /\ last.recv = "Mock"
    /\ \E c1, c2 \in MockCalls :
          /\ DOMAIN c1.kwargs = {}
          /\ DOMAIN c2.kwargs = {}
          /\ Len(c1.args) = 3
          /\ Len(c2.args) = 3
          /\ c1.args # c2.args
          /\ \A c \in {c1, c2} :
                /\ \E k \in DataItems(store) :
                      store[k].value = Ret(bound(MockFunc, c.args, c.kwargs))
                /\ Try("Mock.func", c).invoked

\* The plain function, called in every form, with its version key deleted
\* or reset in between.
NextVerhash ==
    \/ CallFunc
    \/ DeleteVerhash
    \/ DeleteFunction

SpecVerhash == InitFunc /\ [][NextVerhash]_vars

\* C13: delete_memoized_verhash(func) leaves the backend without func's
\* version key; the next call of func that Python binds, with any arguments
\* that were cached, invokes func again and leaves the version key present.
C13_VerhashDeletedThenRecreated ==
    [][DeleteVerhash =>
          /\ FuncVersionKey \notin DOMAIN store'
          /\ \A c \in FuncCalls :
                (binds(Func, c.args, c.kwargs) /\ Hit(Try("func", c))) =>
                    \E r \in {TryNext("func", c)} :
                        /\ r.invoked
                        /\ FuncVersionKey \in DOMAIN r.store]_vars

\* Caches with a deployment namespace, as TestNSCache builds them: the
\* plain function is called while time passes, and its version key is
\* reset or deleted.
InitNS == Setup(Namespaces \ {<<>>}, {<<2>>})

NextNS ==
    \/ CallPositional
    \/ DeleteFunction
    \/ DeleteVerhash
    \/ Tick

SpecNS == InitNS /\ [][NextNS]_vars

\* The cache key of func(*c.args, **c.kwargs) made now on this backend.
KeyHere(c) ==
    make_cache_key(cfg, store, uuids, now, cache_timeout["func"], Func,
                   c.args, c.kwargs).key

\* The cache key a Cache with the same configuration makes on a backend
\* that holds nothing, after n uuid4 draws.
KeyFresh(c, n) ==
    make_cache_key(cfg, <<>>, n, 0, cache_timeout["func"], Func, c.args,
                   c.kwargs).key

\* C14: with a non-empty namespace, the key of func for given arguments is,
\* in every state of the backend (version token stored, expired or
\* deleted), the key a second Cache with that namespace makes over an empty
\* backend of its own; so any two such caches, each in any state it can
\* reach, make the same key.
C14_SameNamespaceSameKey ==
    cfg.namespace # <<>> =>
        \A c \in PositionalCalls :
            \E key \in {KeyHere(c)} :
                \A n \in 0..MaxUuid : KeyFresh(c, n) = key

\* A namespaced cache whose backend holds func's version token and a value
\* stored under it, both still live.
C14_Witness ==
    /\ cfg.namespace # <<>>
    /\ cache_get(store, FuncVersionKey, now) # PyNone
    /\ \E c \in PositionalCalls :
          /\ binds(Func, c.args, c.kwargs)
          /\ cache_get(store, KeyHere(c), now) # PyNone

\* The plain function with invalidations that name it by a str.
NextNames ==
    \/ CallFunc
    \/ DeleteByName
    \/ DeleteVerhashByName

SpecNames == InitFunc /\ [][NextNames]_vars

NextUnless ==
    \/ CallUnless
    \/ DeleteFunction

SpecUnless == InitFunc /\ [][NextUnless]_vars

\* C16: a call made while unless() is true leaves the backend exactly as
\* it was (no item created, changed or removed, no uuid4 drawn) and runs
\* func itself: func is invoked, or the call raises func's own TypeError,
\* even when a value for the arguments is cached.
C16_UnlessBypassesCache ==
    [][(CallUnless /\ last'.op = "bypass") =>
          /\ store' = store
          /\ uuids' = uuids
          /\ last'.invoked \/ last'.raised]_vars

\* A call has just bypassed the cache and invoked func although the value
\* of func(1, 5) is cached and live.
C16_Witness ==
    /\ last.op = "bypass"
    /\ last.invoked
    /\ Hit(Try("func", [args |-> <<V1, V5>>, kwargs |-> <<>>]))

\* The plain function called while its cache_timeout is reassigned and time
\* passes.
NextTimeout ==
    \/ CallOneArg
    \/ SetTimeout
    \/ Tick

SpecTimeout == Init /\ [][NextTimeout]_vars

\* The items a step stores: those it creates or changes.
Written == {k \in DOMAIN store' : k \notin DOMAIN store \/ store'[k] # store[k]}

\* C17: every item a call of func stores, the value of a miss and a
\* version token created lazily, expires as func.cache_timeout at the time
\* of the call says (the cache's default when it is None, never when 0),
\* whatever cache_timeout was before.
C17_TimeoutReadAtCallTime ==
    [][CallOneArg =>
          \A k \in Written :
              /\ store'[k].stored = now
              /\ store'[k].expires =
                     normalize_timeout(cache_timeout["func"],
                                       cfg.default_timeout, now)]_vars

\* After func.cache_timeout was reassigned, a call has just stored its
\* value with a lifetime other than that of a value stored before, and the
\* version token, created again after it had expired, has the new lifetime
\* too.
C17_Witness ==
    /\ last.op = "call"
    /\ last.invoked
    /\ store[FuncVersionKey].stored = now
    /\ now > 0
    /\ \E k1, k2 \in DataItems(store) :
          /\ store[k2].stored = now
          /\ store[k2].expires = store[FuncVersionKey].expires
          /\ store[k1].stored < now
          /\ store[k1].expires - store[k1].stored
                # store[k2].expires - store[k2].stored

\* A function memoized with a timeout of 3 ticks on a cache whose default
\* is 1: it is called and invalidated while time passes.
InitPrecedence == Setup(Namespaces, {<<3>>})

NextPrecedence ==
    \/ CallOneArg
    \/ DeleteFunction
    \/ Tick

SpecPrecedence == InitPrecedence /\ [][NextPrecedence]_vars

\* C18: with memoize(T) and T greater than the cache's default D, a value
\* of func stored at time t under the version token the backend still
\* holds (no delete_memoized came after it) is served, without invoking
\* func, at every time t' with D < t' - t < T.
C18_TimeoutOverridesDefault ==
    \A c \in OneArgCalls :
        \A k \in ItemsOf(c) :
            (/\ Lifetime > cfg.default_timeout
             /\ now - store[k].stored > cfg.default_timeout
             /\ now - store[k].stored < Lifetime
             /\ FuncVersionKey \in DOMAIN store
             /\ <<store[FuncVersionKey].value>> = k.ver) =>
                \E r \in {Try("func", c)} :
                    /\ Hit(r)
                    /\ r.value = store[k].value

\* The call c of func leaves out a parameter that has no default.
Omits(c) ==
    \E i \in 1..Len(Func.m_args) :
        /\ ~has_default(Func, i)
        /\ i > Len(c.args)
        /\ Func.m_args[i] \notin DOMAIN c.kwargs

\* C19: in every state of the cache, a call of func that leaves out a
\* required argument raises func's TypeError; it is never served a cached
\* value, not even after func(None) was cached.
C19_MissingArgumentRaises ==
    \A c \in FuncCalls : Omits(c) => Try("func", c).raised

\* The function of two objects, called and invalidated.
NextPair ==
    \/ CallPair
    \/ DeletePair

SpecPair == InitFunc /\ [][NextPair]_vars

\* C20: when the value of pair(x1, y1) is cached, a call pair(x2, y2) is
\* served it if repr(x2) = repr(x1) and repr(y2) = repr(y1), whatever the
\* objects' attributes are by then, and has another cache key if either
\* repr differs.
C20_KeyedByReprOnly ==
    \A x1, x2 \in Objects("x") :
        \A y1, y2 \in Objects("y") :
            \E r1 \in {Try("pair", PairCall(x1, y1))} :
                \E r2 \in {Try("pair", PairCall(x2, y2))} :
                    Hit(r1) =>
                        IF x1.repr = x2.repr /\ y1.repr = y2.repr
                        THEN Hit(r2) /\ r2.value = r1.value
                        ELSE r2.key # r1.key

\* The method called on, and invalidated through, two receivers whose repr
\* is the same.
NextTwins ==
    \/ CallTwin
    \/ DeleteTwin

SpecTwins == InitFunc /\ [][NextTwins]_vars

\* C21: two receivers with the same repr have the same cache key for equal
\* arguments, so a value cached through one is served through the other;
\* and delete_memoized(o.add) through either makes the next call of add on
\* both invoke the method again.
C21_SameReprSameIdentity ==
    [][/\ \A o1, o2 \in Twins :
             \A c \in AddForms :
                 \E r1 \in {Try("add", MethodCall(o1, c))} :
                     \E r2 \in {Try("add", MethodCall(o2, c))} :
                         Hit(r1) =>
                             /\ r2.key = r1.key
                             /\ Hit(r2)
                             /\ r2.value = r1.value
       /\ \A o \in Twins :
             (last'.recv = o /\ DeleteMemoized(o, Bound(Add, o))) =>
                 \A o2 \in Twins :
                     \A c \in AddForms :
                         binds(Add, MethodCall(o2, c).args, c.kwargs) =>
                             TryNext("add", MethodCall(o2, c)).invoked]_vars

\* The method called on every instance, and single calls of it invalidated
\* through the bound method.
NextMethodArgs ==
    \/ CallAdd
    \/ DeleteMethodArgs

SpecMethodArgs == InitFunc /\ [][NextMethodArgs]_vars

\* C22: when the value of o.add(x) is cached, delete_memoized(o.add, x)
\* removes the item stored under the key that o.add(x) used, and the next
\* o.add(x) invokes the method again.
C22_DeleteMethodCall ==
    [][\A o \in Instances :
          \A c \in AddArgForms :
              \E r \in {Try("add", MethodCall(o, c))} :
                  (/\ binds(Add, MethodCall(o, c).args, c.kwargs)
                   /\ Hit(r)
                   /\ last'.recv = o
                   /\ DeleteMethodWith(o, c)) =>
                      /\ r.key \notin DOMAIN store'
                      /\ TryNext("add", MethodCall(o, c)).invoked]_vars

\* The method called on two separate receivers; its version tokens are
\* reset and deleted through the class and through each receiver.
NextFrame ==
    \/ CallSeparate
    \/ DeleteSeparate
    \/ DeleteClass
    \/ VerhashSeparate
    \/ VerhashClass

SpecFrame == InitFunc /\ [][NextFrame]_vars

\* The version key a reset or a delete through the reference f is about:
\* the last of its fetch_keys.
MostSpecific(f) == fetch_keys(f, <<>>)[Len(fetch_keys(f, <<>>))]

\* The step leaves every backend key but k as it was: none is created,
\* removed or stored again.
OnlyChanges(k) ==
    \A j \in (DOMAIN store \cup DOMAIN store') \ {k} :
        /\ j \in DOMAIN store
        /\ j \in DOMAIN store'
        /\ store'[j] = store[j]

\* The step stores a token under k.
Stores(k) == k \in DOMAIN store' /\ store'[k].stored = now

\* C23: delete_memoized(Adder.add) stores a token under the function's
\* version key, delete_memoized(o.add) under o's instance version key, and
\* each leaves every other key of the backend (the other version tokens,
\* every data item) exactly as it was.
C23_ResetChangesOneKey ==
    [][/\ (last'.recv = "" /\ DeleteClass) =>
             /\ Stores(MostSpecific(Decorated(Add)))
             /\ OnlyChanges(MostSpecific(Decorated(Add)))
       /\ \A o \in Separates :
             (last'.recv = o /\ DeleteMemoized(o, Bound(Add, o))) =>
                 /\ Stores(MostSpecific(Bound(Add, o)))
                 /\ OnlyChanges(MostSpecific(Bound(Add, o)))]_vars

\* A value of add stored for the receiver o.
ValuesOf(o) ==
    {k \in DataItems(store) :
        \E c \in AddForms :
            /\ binds(Add, MethodCall(o, c).args, c.kwargs)
            /\ store[k].value = Ret(bound(Add, MethodCall(o, c).args,
                                          c.kwargs))}

\* delete_memoized(adder1.add) has just run over a backend that holds the
\* function's token, adder3's token and a value of each receiver.
C23_Witness ==
    /\ last.op = "delete_memoized"
    /\ last.recv = "adder1"
    /\ MostSpecific(Decorated(Add)) \in DOMAIN store
    /\ MostSpecific(Bound(Add, "adder3")) \in DOMAIN store
    /\ ValuesOf("adder1") # {}
    /\ ValuesOf("adder3") # {}

\* The step removes k, if it is there, and nothing else; it stores nothing
\* and draws no uuid4.
OnlyRemoves(k) ==
    /\ DOMAIN store' = DOMAIN store \ {k}
    /\ \A j \in DOMAIN store' : store'[j] = store[j]
    /\ uuids' = uuids

\* C24: delete_memoized_verhash(Adder.add) removes the function's version
\* key and delete_memoized_verhash(o.add) removes o's instance version key;
\* neither removes another key, stores a token or touches a data item.
C24_VerhashRemovesOneKey ==
    [][/\ (last'.recv = "" /\ VerhashClass) =>
             OnlyRemoves(MostSpecific(Decorated(Add)))
       /\ \A o \in Separates :
             (last'.recv = o /\ DeleteVerhashOf(o, Bound(Add, o))) =>
                 OnlyRemoves(MostSpecific(Bound(Add, o)))]_vars

\* delete_memoized_verhash(adder1.add) has just removed adder1's instance
\* version key; the function's token, adder3's token and a value of each
\* receiver are still in the backend.
C24_Witness ==
    /\ last.op = "delete_memoized_verhash"
    /\ last.recv = "adder1"
    /\ MostSpecific(Bound(Add, "adder1")) \notin DOMAIN store
    /\ MostSpecific(Decorated(Add)) \in DOMAIN store
    /\ MostSpecific(Bound(Add, "adder3")) \in DOMAIN store
    /\ ValuesOf("adder1") # {}
    /\ ValuesOf("adder3") # {}

\* The function and the method on the receivers with the same repr are
\* called while time passes and tokens expire.
NextTokens ==
    \/ CallOneArg
    \/ CallTwin
    \/ Tick

SpecTokens == InitFunc /\ [][NextTokens]_vars

\* After the step the backend returns the tokens vs, in order, for the
\* version keys of the reference f.
Holds(f, vs) ==
    /\ Len(vs) = Len(fetch_keys(f, <<>>))
    /\ \A i \in DOMAIN vs :
          /\ vs[i] # PyNone
          /\ cache_get(store', fetch_keys(f, <<>>)[i], now') = vs[i]

\* C25: when a memoized call of func or of add on an instance returns, the
\* backend holds a token under the function's version key and, for add, one
\* under the instance's version key, and the version part of the key the
\* call used is the stored function token followed by the stored instance
\* token.
C25_KeyCarriesStoredTokens ==
    [][/\ last'.op = "call" /\ last'.recv = "" =>
             \A call \in OneArgCalls :
                 \E r \in {Try("func", call)} :
                     (~r.raised /\ Step("call", "", r)) =>
                         Holds(Decorated(Func), r.key.ver)
       /\ \A o \in Twins :
             last'.op = "call" /\ last'.recv = o =>
                 \A call \in AddCalls(o) :
                     \E r \in {Try("add", call)} :
                         (~r.raised /\ Step("call", o, r)) =>
                             Holds(Bound(Add, o), r.key.ver)]_vars

\* A call of add on adder1 has just returned a value from the cache, with
\* the function's token and adder1's token in the backend and time passed
\* since the backend was empty.
C25_Witness ==
    /\ last = Outcome("call", "adder1", FALSE, FALSE)
    /\ now > 0
    /\ \A i \in 1..2 :
          cache_get(store, fetch_keys(Bound(Add, "adder1"), <<>>)[i], now)
              # PyNone

\* C26: every version token of add that a step stores (made lazily by a
\* call, or made again by delete_memoized with no arguments) expires as
\* add's cache_timeout says, not as the cache's default timeout.
C26_TokensUseFunctionTimeout ==
    [][\A k \in Written \cap VersionItems(store') :
          store'[k].expires =
              normalize_timeout(cache_timeout["add"], cfg.default_timeout,
                                now)]_vars

\* The method is called on two receivers with separate instance namespaces
\* while time passes.
NextSeparate ==
    \/ CallSeparate
    \/ Tick

SpecSeparate == InitFunc /\ [][NextSeparate]_vars

\* C27: a call of add on an instance that finds the function's token in the
\* backend and no token of the instance does not write the function's
\* version key: its item keeps its value, its store time and its expiry.
C27_PresentTokenNotWritten ==
    [][\A o \in Separates :
          (/\ last'.op = "call"
           /\ last'.recv = o
           /\ cache_get(store, fetch_keys(Bound(Add, o), <<>>)[1], now)
                  # PyNone
           /\ cache_get(store, fetch_keys(Bound(Add, o), <<>>)[2], now)
                  = PyNone) =>
              store'[fetch_keys(Bound(Add, o), <<>>)[1]] =
                  store[fetch_keys(Bound(Add, o), <<>>)[1]]]_vars

\* The method is called on its instances and, with no positional argument,
\* through the class; the function's version token is deleted in between.
NextUnbound ==
    \/ CallAdd
    \/ CallUnbound
    \/ VerhashClass

SpecUnbound == InitFunc /\ [][NextUnbound]_vars

\* C28: a call Adder.add(...) with no positional argument, whose cache key
\* cannot be built, raises and leaves the backend as it found it: no version
\* token was created or written.
C28_FailedKeyTouchesNothing ==
    [][CallUnbound => (last'.raised /\ store' = store)]_vars

\* func is called, and its key builder is called directly with the function
\* and with its relative name.
NextMakeKey ==
    \/ CallPositional
    \/ MakeKey
    \/ MakeKeyByName
    \/ DeleteFunction

SpecMakeKey == InitFunc /\ [][NextMakeKey]_vars

\* C29: make_cache_key with a value that is not callable in the function
\* position returns a key and does not raise.
C29_NonCallableGetsKey ==
    [][MakeKeyByName => ~last'.raised]_vars

\* The function memoized with a make_name override is called and
\* invalidated, with and without arguments.
NextNamed ==
    \/ CallNamed
    \/ DeleteNamed
    \/ DeleteNamedArgs

SpecNamed == InitFunc /\ [][NextNamed]_vars

\* C30: for a function memoized with a make_name override, the version
\* tokens are kept under the un-renamed function namespace + "_memver";
\* delete_memoized(named) makes every later call that Python binds invoke
\* the function again; and delete_memoized(named, args) removes the item of
\* the call with those arguments.
C30_MakeNameKeepsInvalidation ==
    [][/\ VersionItems(store') \subseteq
             {VersionKey(function_namespace(Named, <<>>).ns)}
       /\ (last'.op = "delete_memoized" /\ DeleteNamed) =>
             \A c \in FuncCalls :
                 binds(Named, c.args, c.kwargs) => TryNext("named", c).invoked
       /\ last'.op = "delete_args" =>
             \A c \in ArgCalls :
                 \E r \in {Try("named", c)} :
                     (Hit(r) /\ DeleteNamedWith(c)) =>
                         r.key \notin DOMAIN store']_vars

\* func is called with and without arguments beyond its declared
\* parameters.
NextExtra ==
    \/ CallPositional
    \/ CallExtra

SpecExtra == InitFunc /\ [][NextExtra]_vars

\* The canonical arguments of the call of f have one value for each
\* declared parameter, and each call that adds surplus arguments has the
\* same number of them and the cache key r.key of the call without.
Canonical(fname, f, call, r) ==
    /\ Len(_gen_args(f, call.args, call.kwargs)) = Len(f.m_args)
    /\ \A extra \in Surplus(f, call) :
          /\ Len(_gen_args(f, extra.args, extra.kwargs)) = Len(f.m_args)
          /\ Try(fname, extra).key = r.key

\* C31: _gen_args yields one value for each declared parameter of func and
\* of add, whatever the call passes, and a call that differs from another
\* only in arguments beyond the declared parameters gets the same cache key.
C31_SurplusArgumentsIgnored ==
    /\ \A call \in FuncCalls :
          \E r \in {Try("func", call)} : Canonical("func", Func, call, r)
    /\ \A call \in AddCalls("adder1") :
          \E r \in {Try("add", call)} : Canonical("add", Add, call, r)

\* A call of func with a surplus argument has just been served, without
\* invoking func, the value that a call without it stored.
C31_Witness ==
    /\ last = Outcome("call_extra", "", FALSE, FALSE)
    /\ DataItems(store) # {}

\* The function that returns None is called and invalidated while time
\* passes.
NextNothing ==
    \/ CallNothing
    \/ DeleteNothing
    \/ Tick

SpecNothing == Init /\ [][NextNothing]_vars

\* C32: every call of nothing(), whose result is None, invokes the function,
\* whatever the backend holds, and stores None under its key again.
C32_NoneIsNeverServed ==
    [][\E r \in {Try("nothing", [args |-> <<>>, kwargs |-> <<>>])} :
          /\ r.invoked
          /\ r.value = PyNone
          /\ (last'.op = "call" /\ CallNothing) =>
                /\ r.key \in DOMAIN store'
                /\ store'[r.key].value = PyNone
                /\ store'[r.key].stored = now]_vars

\* The version token nothing() is keyed by.
NothingToken == fetch_keys(Decorated(Nothing), <<>>)[1]

\* nothing() has just been invoked and its None stored, under the key of the
\* call that made the version token at an earlier time (the token expires as
\* the function's timeout says, not as a reset's default): that call's item,
\* as old as the token and stored with the same timeout, was still there.
C32_Witness ==
    /\ last = Outcome("call", "", TRUE, FALSE)
    /\ cache_timeout["nothing"] = <<2>>
    /\ cache_get(store, NothingToken, now) # PyNone
    /\ store[NothingToken].stored < now
    /\ store[NothingToken].expires = store[NothingToken].stored + 2
    /\ \E k \in DataItems(store) :
          /\ k.ver = <<store[NothingToken].value>>
          /\ store[k].value = PyNone
          /\ store[k].stored = now

\* The method on the receivers with the same repr and the function that
\* returns None are called while time passes.
NextHit ==
    \/ CallTwin
    \/ CallNothing
    \/ Tick

SpecHit == InitFunc /\ [][NextHit]_vars

\* The backend holds an unexpired item under the key k.
Present(k) ==
    k \in DOMAIN store /\ (store[k].expires = 0 \/ store[k].expires > now)

\* The backend holds an unexpired token under each version key of f.
TokensPresent(f) ==
    \A i \in DOMAIN fetch_keys(f, <<>>) : Present(fetch_keys(f, <<>>)[i])

\* The call invokes nothing and leaves the backend and the uuid4 draws as
\* they were.
ReadOnly(r) == ~r.invoked /\ store' = store /\ uuids' = uuids

\* C33 as stated: a call of add on an instance, or of nothing(), that finds
\* its version tokens and an unexpired item under its key in the backend
\* invokes nothing and leaves the backend exactly as it was.
C33_PresentEntryReadOnly ==
    [][last'.op = "call" =>
          /\ \E r \in {Try("nothing", [args |-> <<>>, kwargs |-> <<>>])} :
                (/\ last'.recv = ""
                 /\ TokensPresent(Decorated(Nothing))
                 /\ Present(r.key)
                 /\ Step("call", "", r)) => ReadOnly(r)
          /\ \A o \in Twins : \A call \in AddCalls(o) :
                \E r \in {Try("add", call)} :
                    (/\ last'.recv = o
                     /\ TokensPresent(Bound(Add, o))
                     /\ Present(r.key)
                     /\ Step("call", o, r)) => ReadOnly(r)]_vars

\* C33, amended: a call of add on an instance, or of nothing(), that finds
\* its version tokens in the backend and reads a value other than None under
\* its key invokes nothing and leaves the backend exactly as it was.
C33_ReadValueReadOnly ==
    [][last'.op = "call" =>
          /\ \E r \in {Try("nothing", [args |-> <<>>, kwargs |-> <<>>])} :
                (/\ last'.recv = ""
                 /\ TokensPresent(Decorated(Nothing))
                 /\ cache_get(store, r.key, now) # PyNone
                 /\ Step("call", "", r)) => ReadOnly(r)
          /\ \A o \in Twins : \A call \in AddCalls(o) :
                \E r \in {Try("add", call)} :
                    (/\ last'.recv = o
                     /\ TokensPresent(Bound(Add, o))
                     /\ cache_get(store, r.key, now) # PyNone
                     /\ Step("call", o, r)) => ReadOnly(r)]_vars

\* A call of add on adder1 has just been served from the cache at a time
\* after its tokens and its value were stored.
C33_Witness ==
    /\ last = Outcome("call", "adder1", FALSE, FALSE)
    /\ TokensPresent(Bound(Add, "adder1"))
    /\ \A k \in DOMAIN store : store[k].stored < now
    /\ ValuesOf("adder1") # {}

\* Two threads call func(1) step by step.
NextRace ==
    \/ StartFunc
    \/ WriteTokens
    \/ ReadValue
    \/ StoreValue

SpecRace == InitFunc /\ [][NextRace]_vars

\* The key of thread th carries the version token the backend holds for
\* func after the step.
Current(th) ==
    /\ FuncVersionKey \in DOMAIN store'
    /\ flight[th].key.ver = <<store'[FuncVersionKey].value>>

\* C34: when a thread that missed stores its value under a key whose version
\* token is the one in the backend, whatever another thread that missed on
\* the same key has stored or will store, the backend then holds that
\* thread's value under the key and a later call func(1) is served it
\* without invoking func.
C34_LastWriteWins ==
    [][\A th \in Threads :
          (last'.recv = ThreadName(th) /\ FlightSet(th) /\ Current(th)) =>
              /\ store'[flight[th].key].value = Computed(th)
              /\ \E r \in {TryNext("func", flight[th].call)} :
                    /\ Hit(r)
                    /\ r.value = Computed(th)]_vars

\* Both threads missed on the same key and both invoked func; thread 1 wrote
\* first and thread 2 last, and the backend holds thread 2's value.
C34_Witness ==
    /\ \A th \in Threads : flight[th].pc = "idle" /\ flight[th].invoked
    /\ flight[1].key = flight[2].key
    /\ flight[1].value # flight[2].value
    /\ last = Outcome("call", "thread2", TRUE, FALSE)
    /\ store[flight[2].key].value = flight[2].value

\* Values of every size are set and deleted in the spreading backend.
NextSpread ==
    \/ SpreadSet
    \/ SpreadDelete

SpecSpread == InitFunc /\ [][NextSpread]_vars

\* The value takes more than one item and at most MAXCHUNKS chunks.
Spreads(value) ==
    TooBig(value) /\ chunks(pickle_dumps(value)) <= MAXCHUNKS

\* C35: set(key, v) of a value that is spread over chunks is followed by
\* get(key) = v, whatever the backend held before; and delete(key) of a
\* spread value leaves neither the marker nor any chunk key, and get(key)
\* is None after it.
C35_SpreadRoundTrip ==
    [][/\ \A key \in SpreadKeys : \A value \in SpreadValues :
             (Spreads(value) /\ SpreadSetOf(key, value)) =>
                 /\ ~last'.raised
                 /\ store'[key].value = MARKER
                 /\ spread_get(store', key, now) = value
       /\ \A key \in SpreadKeys :
             (/\ last'.op = "spread_delete"
              /\ cache_get(store, key, now) = MARKER
              /\ SpreadDeleteOf(key)) =>
                 /\ key \notin DOMAIN store'
                 /\ \A i \in 0..(MAXCHUNKS - 1) :
                       SpreadKey(key, i) \notin DOMAIN store'
                 /\ spread_get(store', key, now) = PyNone]_vars

\* A value of two chunks has just been set under k over a value of three:
\* the third chunk of the old value is still in the backend, and get(k) is
\* the new value.
C35_Witness ==
    /\ last = Outcome("spread_set", "", FALSE, FALSE)
    /\ [text |-> <<"k">>, ver |-> <<>>] \in DOMAIN store
    /\ store[[text |-> <<"k">>, ver |-> <<>>]].value = MARKER
    /\ SpreadKey([text |-> <<"k">>, ver |-> <<>>], 2) \in DOMAIN store
    /\ spread_get(store, [text |-> <<"k">>, ver |-> <<>>], now)
           = Obj(<<"b", "b", "b">>)

\* C36: set(key, v) of a value that needs more than MAXCHUNKS chunks raises
\* ValueError, and get(key) after it is None, whatever the key held before.
C36_TooManyChunksLeavesNone ==
    [][\A key \in SpreadKeys : \A value \in SpreadValues :
          (/\ chunks(pickle_dumps(value)) > MAXCHUNKS
           /\ SpreadSetOf(key, value)) =>
              /\ last'.raised
              /\ spread_get(store', key, now) = PyNone]_vars

\* Threads call add on the separate receivers step by step while the class
\* is invalidated.
NextLost ==
    \/ StartAdd
    \/ WriteTokens
    \/ ReadValue
    \/ StoreValue
    \/ DeleteClass

SpecLost == InitFunc /\ [][NextLost]_vars

AddVersionKey == fetch_keys(Decorated(Add), <<>>)[1]

\* The thread read the function's token and found no token of its
\* receiver, and the function's token has been reset since.
ResetSinceRead(th) ==
    /\ flight[th].pc = "read"
    /\ flight[th].fname = "add"
    /\ flight[th].read[1] # PyNone
    /\ flight[th].read[2] = PyNone
    /\ AddVersionKey \in DOMAIN store
    /\ store[AddVersionKey].value # flight[th].read[1]

\* C37: when delete_memoized(Adder.add) has reset the function's token
\* between a call's read of the tokens and its write of the batch, the
\* token stored once the call has written differs from the token stored
\* before the reset, and no later call of add is served from a key that
\* carries the token from before the reset.
C37_ResetNotLost ==
    [][\A th \in Threads :
          (/\ last'.op = "set_many"
           /\ last'.recv = ThreadName(th)
           /\ ResetSinceRead(th)
           /\ FlightWrite(th)) =>
              /\ store'[AddVersionKey].value # flight[th].read[1]
              /\ \A o \in Separates :
                    \E r \in {TryNext("add", [args |-> <<Repr(o), V5>>,
                                              kwargs |-> <<>>])} :
                        Hit(r) => r.key.ver[1] # flight[th].read[1]]_vars

\* Threads call func(1) step by step while delete_memoized(func, 1) runs.
NextLate ==
    \/ StartFunc
    \/ WriteTokens
    \/ ReadValue
    \/ StoreValue
    \/ DeleteOne

SpecLate == InitFunc /\ [][NextLate]_vars

\* C38: when delete_memoized(func, 1) has completed while a call func(1)
\* that missed was computing, the value that call then stores is not what
\* a later call func(1) is served: the later call is not a hit on it.
C38_DeleteNotUndone ==
    [][\A th \in Threads :
          (/\ last.op = "delete_args"
           /\ last'.recv = ThreadName(th)
           /\ flight[th].pc = "missed"
           /\ FlightSet(th)) =>
              \E r \in {TryNext("func", flight[th].call)} :
                  ~(Hit(r) /\ r.value = Computed(th))]_vars

\* Threads call func(1) step by step on a cache without a namespace while
\* delete_memoized(func) runs.
NextStale ==
    \/ StartFunc
    \/ WriteTokens
    \/ ReadValue
    \/ StoreValue
    \/ DeleteFunction

SpecStale == Setup({<<>>}, {<<2>>}) /\ [][NextStale]_vars

\* The data key k of func carries another token than the one the table st
\* holds for func.
Stale(k, st) ==
    FuncVersionKey \notin DOMAIN st \/ <<st[FuncVersionKey].value>> # k.ver

\* C39: without a namespace, when a call of func stores its value under a
\* key built before delete_memoized(func) replaced the token, the value
\* lands under that old key, a call of func made after it builds another
\* key, and a key that has fallen behind the function's token never
\* carries the function's token again.
C39_LateWriteUnderOldKey ==
    [][/\ \A th \in Threads :
             (/\ last'.recv = ThreadName(th)
              /\ flight[th].pc = "missed"
              /\ Stale(flight[th].key, store)
              /\ FlightSet(th)) =>
                 /\ flight[th].key \in DOMAIN store'
                 /\ store'[flight[th].key].value = Computed(th)
                 /\ DOMAIN store' = DOMAIN store \cup {flight[th].key}
                 /\ \E r \in {TryNext("func", flight[th].call)} :
                       r.key # flight[th].key
       /\ \A k \in DataItems(store) :
             Stale(k, store) => Stale(k, store')]_vars

\* A thread that built its key before a reset has just stored its value:
\* the value is in the backend under a key that does not carry func's
\* token, and no other thread has made a call, so that the token was
\* replaced by delete_memoized(func).
C39_Witness ==
    /\ last.op = "call"
    /\ last.invoked
    /\ \E th \in Threads :
          /\ last.recv = ThreadName(th)
          /\ \A other \in Threads \ {th} : flight[other] = Idle
          /\ flight[th].key \in DOMAIN store
          /\ store[flight[th].key].value = flight[th].value
          /\ FuncVersionKey \in DOMAIN store
          /\ Stale(flight[th].key, store)

\* func and add are called on one cache, and func is invalidated in each of
\* the three ways.
NextScope ==
    \/ CallOneArg
    \/ CallSeparate
    \/ DeleteFunction
    \/ DeleteOne
    \/ DeleteVerhash

SpecScope == InitFunc /\ [][NextScope]_vars

\* The step leaves what the backend holds under k as it was.
Keeps(k) ==
    /\ k \in DOMAIN store <=> k \in DOMAIN store'
    /\ k \in DOMAIN store => store'[k] = store[k]

\* C40: delete_memoized(func), delete_memoized(func, 1) and
\* delete_memoized_verhash(func) leave the version tokens of add, of the
\* function and of each receiver, and every value cached for add as they
\* were, and a call of add that was a hit before the invalidation is a hit
\* on the same value after it.
C40_InvalidationScoped ==
    [][last'.op \in {"delete_memoized", "delete_args",
                     "delete_memoized_verhash"} =>
          \A o \in Separates :
              /\ \A i \in DOMAIN fetch_keys(Bound(Add, o), <<>>) :
                    Keeps(fetch_keys(Bound(Add, o), <<>>)[i])
              /\ \E r \in {Try("add", [args |-> <<Repr(o), V5>>,
                                        kwargs |-> <<>>])} :
                    Hit(r) =>
                        /\ Keeps(r.key)
                        /\ \E s \in {TryNext("add",
                                              [args |-> <<Repr(o), V5>>,
                                               kwargs |-> <<>>])} :
                              Hit(s) /\ s.value = r.value]_vars

\* delete_memoized(func) has just replaced func's token: a value of func
\* is left under the old token, and a call of add is a hit.
C40_Witness ==
    /\ last = Outcome("delete_memoized", "", FALSE, FALSE)
    /\ FuncVersionKey \in DOMAIN store
    /\ \E k \in DataItems(store) :
          /\ k.text = Try("func", [args |-> <<V1>>, kwargs |-> <<>>]).key.text
          /\ Stale(k, store)
    /\ Hit(Try("add", [args |-> <<Repr("adder1"), V5>>, kwargs |-> <<>>]))

====
